---- MODULE Spec2Model ----
\* Model of the navigation_lite action servers:
\*   * ControllerServer (src/src/controller_server.cpp): the follow-waypoints
\*     action server, its actuation mutex and its execute() thread;
\*   * NavigationServer (src/src/navigation_server.cpp): the navigate-to-pose
\*     action server and its mission loop;
\*   * the on_timer() pose cache of both servers.
\*
\* Units.  Lengths are integers: positions in decimetres, distances and linear
\* speeds in millimetres (per second).  Angles and angular speeds are integer
\* milliradians (per second), so M_PI is 3142.  The PID gains of the code
\* (0.7, 0, 0) are the rational 7/10.
EXTENDS Integers, Sequences, FiniteSets, TLC

\* ------------------------------------------------------------------ bounds
MaxGoals == 2
MaxWaypoints == 2
MaxCoord == 3
MaxMissions == 2
MaxTicks == 3
MaxRefresh == 3
MaxAngle == 12
MaxModulus == 4

\* ------------------------------------------------------- program constants
Pi == 3142
DEFAULT_MAX_SPEED_XY == 250
DEFAULT_MAX_SPEED_Z == 330
DEFAULT_MAX_YAW_SPEED == 50000
DEFAULT_WAYPOINT_RADIUS_ERROR == 300
\* float waypoint_radius_error_ holding 0.3: the nearest single-precision value
\* is 0.300000011920929 m, here in units of 10^-5 mm (rounded down).
WAYPOINT_RADIUS_ERROR_FLOAT == 30000001
PoseGoodYawError == 87
FinalYawThreshold == 20
PidGainTenths == 7

\* ------------------------------------------------------------- arithmetic
Abs(v) == IF v < 0 THEN -v ELSE v

Sign(v) == IF v < 0 THEN -1 ELSE IF v > 0 THEN 1 ELSE 0

\* C++ division of doubles, here on scaled integers: truncation toward zero.
TruncDiv(a, b) == Sign(a) * Sign(b) * (Abs(a) \div Abs(b))

\* sqrt(pow(err_x,2) + pow(err_y,2)) for errors in decimetres, in millimetres
\* (rounded down): the table is indexed by err_x^2 + err_y^2.
SqrtMm == [k \in 0..(2 * (MaxCoord + 1) * (MaxCoord + 1)) |->
             CHOOSE r \in 0..(100 * 2 * (MaxCoord + 1)) :
                 r * r <= 10000 * k /\ (r + 1) * (r + 1) > 10000 * k]

Distance(err_x, err_y) == SqrtMm[err_x * err_x + err_y * err_y]

\* atan(p/q) in milliradians for 0 <= p <= 6, 1 <= q <= 6 (row p+1, column q).
AtanTable ==
    << <<0, 0, 0, 0, 0, 0>>,
       <<785, 464, 322, 245, 197, 165>>,
       <<1107, 785, 588, 464, 381, 322>>,
       <<1249, 983, 785, 644, 540, 464>>,
       <<1326, 1107, 927, 785, 675, 588>>,
       <<1373, 1190, 1030, 896, 785, 695>>,
       <<1406, 1249, 1107, 983, 876, 785>> >>

\* atan(num / den), den # 0: odd in the quotient, range (-pi/2, pi/2).
Atan(num, den) == Sign(num) * Sign(den) * AtanTable[Abs(num) + 1][Abs(den)]

\* atan2(y, x) as tf2's getRPY uses it, range [-pi, pi].
Atan2(y, x) ==
    IF x > 0 THEN Atan(y, x)
    ELSE IF x < 0 THEN (IF y >= 0 THEN Atan(y, x) + Pi ELSE Atan(y, x) - Pi)
    ELSE IF y > 0 THEN Pi \div 2
    ELSE IF y < 0 THEN -(Pi \div 2)
    ELSE 0

\* The difference folded once, without the fmod.
getAbsoluteDiff2AnglesNoWrap(x, y, c) == c - Abs(Abs(x - y) - c)

\* return c - fabs(fmod(fabs(x - y), 2*c) - c);
getAbsoluteDiff2Angles(x, y, c) == c - Abs((Abs(x - y) % (2 * c)) - c)

\* ------------------------------------------------------------------- data
\* Orientation quaternions <<x, y, z, w>> (up to a common positive factor,
\* which tf2::Matrix3x3::setRotation divides out): yaw 0, pi/2, pi, -pi/2.
Quaternions == { <<0, 0, 0, 1>>, <<0, 0, 1, 1>>, <<0, 0, 1, 0>>, <<0, 0, -1, 1>> }

\* tf2::Matrix3x3(q).getRPY(roll, pitch, yaw): the yaw of a rotation with zero
\* pitch, atan2(m[1][0], m[0][0]) of the rotation matrix of q.
GetYaw(q) ==
    Atan2(2 * (q[4] * q[3] + q[1] * q[2]),
          q[4] * q[4] + q[1] * q[1] - q[2] * q[2] - q[3] * q[3])

Yaws == { GetYaw(q) : q \in Quaternions }

Twist(lx, ly, lz, ax, ay, az) ==
    [linear |-> [x |-> lx, y |-> ly, z |-> lz],
     angular |-> [x |-> ax, y |-> ay, z |-> az]]

ZeroTwist == Twist(0, 0, 0, 0, 0, 0)

\* The waypoints a follow-waypoints goal is made of.
Waypoints ==
    { [x |-> MaxCoord, y |-> 0, z |-> 1, q |-> <<0, 0, 1, 1>>],
      [x |-> 0, y |-> 1, z |-> 0, q |-> <<0, 0, 0, 1>>] }

RECURSIVE SeqsUpTo(_, _)
SeqsUpTo(S, n) ==
    IF n = 0 THEN { <<>> }
    ELSE LET shorter == SeqsUpTo(S, n - 1)
         IN  shorter \cup { Append(s, e) : s \in { t \in shorter : Len(t) = n - 1 }, e \in S }

\* goal->poses of the follow-waypoints requests.
GoalPoses == SeqsUpTo(Waypoints, MaxWaypoints)

\* What one control cycle reads from the pose cache (last_pose->position and
\* last_yaw).  on_timer() overwrites the cache concurrently and without a lock,
\* so a read returns any position of the grid and any yaw.
PoseSamples ==
    [x : 0..MaxCoord, y : 0..1, z : 0..1, yaw : Yaws]

Goals == 1..MaxGoals

\* The locals err_x, err_y, distance of execute() before the first read.
NoPose == [x |-> 0, y |-> 0, z |-> 0, yaw |-> 0]

\* PID::calculate(setpoint, pv) of navigation_lite/pid.h, constructed as
\* PID(dt, max, -max, 0.7, 0.0, 0.0): with the integral and derivative gains
\* at their configured zero the output is the proportional term, clamped.
PidCalculate(max, set_point, pv) ==
    LET out == TruncDiv(PidGainTenths * (set_point - pv), 10)
    IN  IF out > max THEN max ELSE IF out < -max THEN -max ELSE out

\* ------------------------------------------------------------------ state
VARIABLES
    server_mutex,       \* ControllerServer::server_mutex is locked
    ctl_ok,             \* rclcpp::ok() in the controller process
    ctl_alive,          \* the controller process has not crashed
    goal_status,        \* per follow-waypoints goal: the action server's state
    poses,              \* per goal: goal->poses
    pc,                 \* per goal: where its execute() thread stands
    current_waypoint,   \* per goal: feedback->current_waypoint
    waypoint_is_close,  \* per goal: local of execute()
    setpoint,           \* per goal: local of execute()
    yaw,                \* per goal: local of execute(), the final yaw target
    missed_waypoints,   \* per goal: result->missed_waypoints
    feedback_sent,      \* per goal: the feedback messages published, in order
    reached,            \* per goal: the waypoints observed within the radius, in order
    zero_tail,          \* per goal: how many of its last two setpoints are all-zero stops
    cycle_pose,         \* per goal: the pose read for the distance the loop head tests next
    iter_pubs,          \* per goal: setpoints published in the loop iteration it is in
    cmd_vel,            \* the last message on drone/cmd_vel
    segment_free,       \* the map: the segment to the targeted waypoint is free
    nav_ok,             \* rclcpp::ok() in the navigation process
    nav_alive,          \* the navigation process has not terminated
    mission_status,     \* per navigate-to-pose goal: the action server's state
    behavior_tree,      \* per mission: goal->behavior_tree names a loadable script
    nav_pc,             \* per mission: where its execute() thread stands
    ticks,              \* per mission: calls of tree.tickRoot()
    feedbacks,          \* per mission: calls of publish_feedback()
    last_tick,          \* per mission: what the last tickRoot() returned
    cancel_at_tick,     \* per mission: a cancel was pending when that tick returned
    tf_available,       \* the tf buffer can answer lookupTransform()
    tf_pose,            \* the transform it answers with
    nav_last_pose,      \* NavigationServer::last_pose
    nav_last_good,      \* what its last successful lookup left in the cache
    ctl_last_pose,      \* ControllerServer::last_pose
    ctl_last_yaw,       \* ControllerServer::last_yaw
    ctl_last_good,      \* what its last successful lookup left in the cache
    nav_lookup,         \* how the last lookup of the navigation server ended
    ctl_lookup,         \* how the last lookup of the controller ended
    refresh,            \* on_timer() runs of the controller that got a transform
    timer_pc,           \* where the running on_timer() stands in its writes
    cache,              \* per field of last_pose / last_yaw: the refresh that wrote it
    reader_pc,          \* where a control cycle stands in its reads of the cache
    snapshot,           \* per field: the refresh whose value the cycle read
    call_args,          \* the arguments of a function under evaluation
    call_result         \* its result, once computed

ctlVars ==
    <<server_mutex, ctl_ok, ctl_alive, goal_status, poses, pc, current_waypoint,
      waypoint_is_close, setpoint, yaw, missed_waypoints, feedback_sent,
      reached, zero_tail, cycle_pose, iter_pubs, cmd_vel, segment_free>>

navVars ==
    <<nav_ok, nav_alive, mission_status, behavior_tree, nav_pc, ticks, feedbacks,
      last_tick, cancel_at_tick>>

poseVars ==
    <<tf_available, tf_pose, nav_last_pose, nav_last_good, ctl_last_pose,
      ctl_last_yaw, ctl_last_good, nav_lookup, ctl_lookup>>

snapVars == <<refresh, timer_pc, cache, reader_pc, snapshot>>

callVars == <<call_args, call_result>>

auxVars == <<snapVars, callVars>>

vars == <<ctlVars, navVars, poseVars, auxVars>>

\* ------------------------------------------------- ControllerServer helpers
\* A try_lock() that succeeds on a held mutex.
TryLockAlways == TRUE

\* std::mutex::try_lock() succeeds iff the mutex is free.
TryLock == ~server_mutex

\* The loop started at 0 instead of current_waypoint.
MissedFromZero(missed, k, n) == missed \o [i \in 1..n |-> i - 1]

\* for (i = current_waypoint; i < goal->poses.size(); i++) missed.push_back(i)
MissedFrom(missed, k, n) ==
    missed \o [i \in 1..(IF n > k THEN n - k ELSE 0) |-> k + i - 1]

\* The waypoint the range-for of execute() is at (wp), 0-indexed by
\* current_waypoint.
Wp(g) == poses[g][current_waypoint[g] + 1]

\* Direction to the waypoint, lines 303-310.
YawToTarget(err_x, err_y) ==
    LET base == IF err_x = 0 THEN 0 ELSE Atan(err_y, err_x)
    IN  IF err_x > 0
        THEN (IF err_y > 0 THEN base - Pi ELSE base + Pi)
        ELSE base

\* The comparison against the radius one millimetre short.
WaypointIsCloseShort(wp, s) ==
    Distance(wp.x - s.x, wp.y - s.y) < DEFAULT_WAYPOINT_RADIUS_ERROR

\* bool waypoint_is_close = (distance < waypoint_radius_error_)
\* distance is a double, waypoint_radius_error_ a float that is widened for the
\* comparison; both sides are taken in units of 10^-5 mm.  Distance() rounds
\* down to a millimetre, which is exact for this comparison as long as no
\* squared distance lies strictly between 300^2 and 301^2 mm^2 (positions are
\* whole decimetres).
WaypointIsClose(wp, s) ==
    100000 * Distance(wp.x - s.x, wp.y - s.y) < WAYPOINT_RADIUS_ERROR_FLOAT

\* The forward speed commanded whatever the heading.
CycleSetpointUngated(wp, s) ==
    LET err_x == wp.x - s.x
        err_y == wp.y - s.y
        yaw_error == getAbsoluteDiff2Angles(YawToTarget(err_x, err_y), s.yaw, Pi)
    IN  Twist(PidCalculate(DEFAULT_MAX_SPEED_XY, 0, -Distance(err_x, err_y)),
              0,
              PidCalculate(DEFAULT_MAX_SPEED_Z, 100 * wp.z, 100 * s.z),
              0, 0,
              PidCalculate(DEFAULT_MAX_YAW_SPEED, 0, -yaw_error))

\* The setpoint of one cycle of the per-waypoint loop, lines 312-329.
CycleSetpoint(wp, s) ==
    LET err_x == wp.x - s.x
        err_y == wp.y - s.y
        distance == Distance(err_x, err_y)
        yaw_error == getAbsoluteDiff2Angles(YawToTarget(err_x, err_y), s.yaw, Pi)
        vehicle_pose_is_good == yaw_error < PoseGoodYawError
    IN  Twist(IF vehicle_pose_is_good
                 THEN PidCalculate(DEFAULT_MAX_SPEED_XY, 0, -distance)
                 ELSE 0,
              0,
              PidCalculate(DEFAULT_MAX_SPEED_Z, 100 * wp.z, 100 * s.z),
              0, 0,
              PidCalculate(DEFAULT_MAX_YAW_SPEED, 0, -yaw_error))

\* publisher_->publish(setpoint) by the thread of goal g.
Publish(g, tw) ==
    /\ cmd_vel' = tw
    /\ zero_tail' = [zero_tail EXCEPT ![g] =
                        IF tw = ZeroTwist
                        THEN (IF @ = 0 THEN 1 ELSE 2)
                        ELSE 0]

\* execute() returns: its locals are gone.
Return(g) ==
    /\ pc' = [pc EXCEPT ![g] = "done"]
    /\ current_waypoint' = [current_waypoint EXCEPT ![g] = 0]
    /\ waypoint_is_close' = [waypoint_is_close EXCEPT ![g] = FALSE]
    /\ setpoint' = [setpoint EXCEPT ![g] = ZeroTwist]
    /\ yaw' = [yaw EXCEPT ![g] = 0]
    /\ cycle_pose' = [cycle_pose EXCEPT ![g] = NoPose]
    /\ iter_pubs' = [iter_pubs EXCEPT ![g] = 0]

CtlInit ==
    /\ server_mutex = FALSE
    /\ ctl_ok = TRUE
    /\ ctl_alive = TRUE
    /\ goal_status = [g \in Goals |-> "none"]
    /\ poses = [g \in Goals |-> <<>>]
    /\ pc = [g \in Goals |-> "idle"]
    /\ current_waypoint = [g \in Goals |-> 0]
    /\ waypoint_is_close = [g \in Goals |-> FALSE]
    /\ setpoint = [g \in Goals |-> ZeroTwist]
    /\ yaw = [g \in Goals |-> 0]
    /\ missed_waypoints = [g \in Goals |-> <<>>]
    /\ feedback_sent = [g \in Goals |-> <<>>]
    /\ reached = [g \in Goals |-> <<>>]
    /\ zero_tail = [g \in Goals |-> 0]
    /\ cycle_pose = [g \in Goals |-> NoPose]
    /\ iter_pubs = [g \in Goals |-> 0]
    /\ cmd_vel = ZeroTwist
    /\ segment_free = TRUE

\* What no callback and no step of an execute() thread of the controller changes.
ctlProcess == <<ctl_ok, segment_free, navVars, poseVars, auxVars>>

\* The same, and the records of the waypoints reached, of the pose read and of
\* the setpoints of the iteration.
ctlFrame == <<ctlProcess, reached, cycle_pose, iter_pubs>>

\* ------------------------------------------- ControllerServer: the callbacks
\* A handle_goal() that takes the mutex with lock(): it waits for the goal that
\* holds it.
HandleGoalBlocking(g, requests) ==
    /\ ctl_alive /\ ctl_ok
    /\ goal_status[g] = "none"
    /\ ~server_mutex
    /\ \E p \in requests : poses' = [poses EXCEPT ![g] = p]
    /\ server_mutex' = TRUE
    /\ goal_status' = [goal_status EXCEPT ![g] = "executing"]
    /\ pc' = [pc EXCEPT ![g] = "accepted"]
    /\ UNCHANGED <<ctl_alive, current_waypoint, waypoint_is_close, setpoint, yaw,
                   missed_waypoints, feedback_sent, zero_tail, cmd_vel, ctlFrame>>

\* handle_goal(): accept iff the mutex can be taken, otherwise reject.
HandleGoal(g, requests) ==
    /\ ctl_alive /\ ctl_ok
    /\ goal_status[g] = "none"
    /\ \E p \in requests :
         IF TryLock
         THEN /\ server_mutex' = TRUE
              /\ goal_status' = [goal_status EXCEPT ![g] = "executing"]
              /\ poses' = [poses EXCEPT ![g] = p]
              /\ pc' = [pc EXCEPT ![g] = "accepted"]
         ELSE /\ goal_status' = [goal_status EXCEPT ![g] = "rejected"]
              /\ UNCHANGED <<server_mutex, poses, pc>>
    /\ UNCHANGED <<ctl_alive, current_waypoint, waypoint_is_close, setpoint, yaw,
                   missed_waypoints, feedback_sent, zero_tail, cmd_vel, ctlFrame>>

\* handle_cancel(): every cancel request for an active goal is accepted.
HandleCancel(g) ==
    /\ ctl_alive /\ ctl_ok
    /\ goal_status[g] = "executing"
    /\ goal_status' = [goal_status EXCEPT ![g] = "canceling"]
    /\ UNCHANGED <<server_mutex, ctl_alive, poses, pc, current_waypoint,
                   waypoint_is_close, setpoint, yaw, missed_waypoints,
                   feedback_sent, zero_tail, cmd_vel, ctlFrame>>

\* handle_accepted(): a detached thread runs execute(); current_waypoint = 0.
HandleAccepted(g) ==
    /\ ctl_alive
    /\ pc[g] = "accepted"
    /\ pc' = [pc EXCEPT ![g] = "for"]
    /\ current_waypoint' = [current_waypoint EXCEPT ![g] = 0]
    /\ UNCHANGED <<server_mutex, ctl_alive, goal_status, poses, waypoint_is_close,
                   setpoint, yaw, missed_waypoints, feedback_sent, zero_tail,
                   cmd_vel, ctlFrame>>

\* rclcpp::shutdown(): rclcpp::ok() turns false and stays false.
CtlShutdown ==
    /\ ctl_alive /\ ctl_ok
    /\ ctl_ok' = FALSE
    /\ UNCHANGED <<server_mutex, ctl_alive, goal_status, poses, pc, current_waypoint,
                   waypoint_is_close, setpoint, yaw, missed_waypoints,
                   feedback_sent, reached, zero_tail, cycle_pose, iter_pubs, cmd_vel,
                   segment_free, navVars, poseVars, auxVars>>

\* The map collaborator: an obstacle enters or leaves the segment.
MapUpdate ==
    /\ ctl_alive
    /\ segment_free' = ~segment_free
    /\ UNCHANGED <<server_mutex, ctl_ok, ctl_alive, goal_status, poses, pc,
                   current_waypoint, waypoint_is_close, setpoint, yaw,
                   missed_waypoints, feedback_sent, reached, zero_tail, cycle_pose,
                   iter_pubs, cmd_vel, navVars, poseVars, auxVars>>

\* ------------------------------------------- ControllerServer::execute()
\* The head of the range-for over goal->poses and its shutdown check.
ForHead(g) ==
    /\ ctl_alive
    /\ pc[g] = "for"
    /\ IF current_waypoint[g] = Len(poses[g])
       THEN /\ pc' = [pc EXCEPT ![g] = "yaw_init"]
            /\ UNCHANGED missed_waypoints
       ELSE IF ~ctl_ok
       THEN /\ missed_waypoints' =
                 [missed_waypoints EXCEPT ![g] =
                     MissedFrom(@, current_waypoint[g], Len(poses[g]))]
            /\ pc' = [pc EXCEPT ![g] = "yaw_init"]
       ELSE /\ pc' = [pc EXCEPT ![g] = "distance"]
            /\ UNCHANGED missed_waypoints
    /\ UNCHANGED <<server_mutex, ctl_alive, goal_status, poses, current_waypoint,
                   waypoint_is_close, setpoint, yaw, feedback_sent, zero_tail,
                   cmd_vel, ctlFrame>>

\* The distance to the new waypoint, before the movement loop.
FirstDistance(g, samples) ==
    /\ ctl_alive
    /\ pc[g] = "distance"
    /\ \E s \in samples :
         /\ waypoint_is_close' = [waypoint_is_close EXCEPT ![g] = WaypointIsClose(Wp(g), s)]
         /\ cycle_pose' = [cycle_pose EXCEPT ![g] = s]
    /\ pc' = [pc EXCEPT ![g] = "while"]
    /\ UNCHANGED <<server_mutex, ctl_alive, goal_status, poses, current_waypoint,
                   setpoint, yaw, missed_waypoints, feedback_sent, zero_tail,
                   cmd_vel, ctlProcess, reached, iter_pubs>>

\* Where while ((!waypoint_is_close) && rclcpp::ok()) leads.
AfterWhile(close, ok) == IF ~close /\ ok THEN "cancel_check" ELSE "feedback"

\* The head of the movement loop.  Leaving it with the waypoint close is the
\* waypoint reached.  The pose read for the test is consumed by it.
WhileHead(g) ==
    /\ ctl_alive
    /\ pc[g] = "while"
    /\ pc' = [pc EXCEPT ![g] = AfterWhile(waypoint_is_close[g], ctl_ok)]
    /\ reached' = [reached EXCEPT ![g] =
                      IF waypoint_is_close[g] THEN Append(@, current_waypoint[g]) ELSE @]
    /\ iter_pubs' = [iter_pubs EXCEPT ![g] =
                        IF AfterWhile(waypoint_is_close[g], ctl_ok) = "cancel_check" THEN 0 ELSE @]
    /\ cycle_pose' = [cycle_pose EXCEPT ![g] = NoPose]
    /\ UNCHANGED <<server_mutex, ctl_alive, goal_status, poses, current_waypoint,
                   waypoint_is_close, setpoint, yaw, missed_waypoints,
                   feedback_sent, zero_tail, cmd_vel, ctlProcess>>

\* A movement loop without the cancel check.
CancelCheckBlind(g) ==
    /\ ctl_alive
    /\ pc[g] = "cancel_check"
    /\ pc' = [pc EXCEPT ![g] = "cycle"]
    /\ UNCHANGED <<server_mutex, ctl_alive, goal_status, poses, current_waypoint,
                   waypoint_is_close, setpoint, yaw, missed_waypoints,
                   feedback_sent, zero_tail, cmd_vel, ctlFrame>>

\* if (goal_handle->is_canceling()) in the movement loop: record the missed
\* waypoints and end the goal as canceled.
CancelCheck(g) ==
    /\ ctl_alive
    /\ pc[g] = "cancel_check"
    /\ IF goal_status[g] = "canceling"
       THEN /\ missed_waypoints' =
                 [missed_waypoints EXCEPT ![g] =
                     MissedFrom(@, current_waypoint[g], Len(poses[g]))]
            /\ goal_status' = [goal_status EXCEPT ![g] = "canceled"]
            /\ pc' = [pc EXCEPT ![g] = "cancel_unlock"]
       ELSE /\ pc' = [pc EXCEPT ![g] = "cycle"]
            /\ UNCHANGED <<missed_waypoints, goal_status>>
    /\ UNCHANGED <<server_mutex, ctl_alive, poses, current_waypoint,
                   waypoint_is_close, setpoint, yaw, feedback_sent, zero_tail,
                   cmd_vel, ctlFrame>>

\* A cancel branch that publishes a stop between canceled() and the unlock.
CancelUnlockAfterStop(g) ==
    /\ ctl_alive
    /\ pc[g] = "cancel_unlock"
    /\ Publish(g, ZeroTwist)
    /\ server_mutex' = FALSE
    /\ Return(g)
    /\ UNCHANGED <<ctl_alive, goal_status, poses, missed_waypoints, feedback_sent,
                   ctlProcess, reached>>

\* server_mutex.unlock(); return; after canceled() in the movement loop.
CancelUnlock(g) ==
    /\ ctl_alive
    /\ pc[g] = "cancel_unlock"
    /\ server_mutex' = FALSE
    /\ Return(g)
    /\ UNCHANGED <<ctl_alive, goal_status, poses, missed_waypoints, feedback_sent,
                   zero_tail, cmd_vel, ctlProcess, reached>>

\* One cycle of the movement loop: read the pose, compute and publish the
\* setpoint, sleep.  The obstacle check is a TODO comment: the map is not read.
Cycle(g, samples) ==
    /\ ctl_alive
    /\ pc[g] = "cycle"
    /\ \E s \in samples :
         /\ waypoint_is_close' = [waypoint_is_close EXCEPT ![g] = WaypointIsClose(Wp(g), s)]
         /\ setpoint' = [setpoint EXCEPT ![g] = CycleSetpoint(Wp(g), s)]
         /\ Publish(g, CycleSetpoint(Wp(g), s))
         /\ cycle_pose' = [cycle_pose EXCEPT ![g] = s]
    /\ iter_pubs' = [iter_pubs EXCEPT ![g] = @ + 1]
    /\ pc' = [pc EXCEPT ![g] = "while"]
    /\ UNCHANGED <<server_mutex, ctl_alive, goal_status, poses, current_waypoint,
                   yaw, missed_waypoints, feedback_sent, ctlProcess, reached>>

\* The feedback published after the increment of current_waypoint.
FeedbackAfterIncrement(g) ==
    /\ ctl_alive
    /\ pc[g] = "feedback"
    /\ feedback_sent' = [feedback_sent EXCEPT ![g] = Append(@, current_waypoint[g] + 1)]
    /\ current_waypoint' = [current_waypoint EXCEPT ![g] = @ + 1]
    /\ pc' = [pc EXCEPT ![g] = "for"]
    /\ cycle_pose' = [cycle_pose EXCEPT ![g] = NoPose]
    /\ iter_pubs' = [iter_pubs EXCEPT ![g] = 0]
    /\ UNCHANGED <<server_mutex, ctl_alive, goal_status, poses, waypoint_is_close,
                   setpoint, yaw, missed_waypoints, zero_tail, cmd_vel, ctlProcess,
                   reached>>

\* After the movement loop: publish feedback, sleep, current_waypoint++.
Feedback(g) ==
    /\ ctl_alive
    /\ pc[g] = "feedback"
    /\ feedback_sent' = [feedback_sent EXCEPT ![g] = Append(@, current_waypoint[g])]
    /\ current_waypoint' = [current_waypoint EXCEPT ![g] = @ + 1]
    /\ pc' = [pc EXCEPT ![g] = "for"]
    /\ cycle_pose' = [cycle_pose EXCEPT ![g] = NoPose]
    /\ iter_pubs' = [iter_pubs EXCEPT ![g] = 0]
    /\ UNCHANGED <<server_mutex, ctl_alive, goal_status, poses, waypoint_is_close,
                   setpoint, yaw, missed_waypoints, zero_tail, cmd_vel, ctlProcess,
                   reached>>

\* The final yaw target and the first yaw command, lines 360-380.
\* goal->poses.back() of an empty vector is undefined behaviour: the read
\* faults (the process dies) or yields an arbitrary orientation.
YawInit(g, samples) ==
    /\ ctl_alive
    /\ pc[g] = "yaw_init"
    /\ \E s \in samples, garbage \in Yaws, faults \in BOOLEAN :
         IF Len(poses[g]) = 0 /\ faults
         THEN /\ ctl_alive' = FALSE
              /\ UNCHANGED <<pc, yaw, setpoint>>
         ELSE LET target == IF Len(poses[g]) = 0
                            THEN garbage
                            ELSE GetYaw(poses[g][Len(poses[g])].q)
              IN  /\ yaw' = [yaw EXCEPT ![g] = target]
                  /\ setpoint' = [setpoint EXCEPT ![g] =
                        Twist(0, 0, 0, 0, 0,
                              PidCalculate(DEFAULT_MAX_YAW_SPEED, target, s.yaw))]
                  /\ pc' = [pc EXCEPT ![g] = "yaw_while"]
                  /\ UNCHANGED ctl_alive
    /\ UNCHANGED <<server_mutex, goal_status, poses, current_waypoint,
                   waypoint_is_close, missed_waypoints, feedback_sent, zero_tail,
                   cmd_vel, ctlFrame>>

\* A yaw loop that is never entered.
YawWhileHeadOnce(g) ==
    /\ ctl_alive
    /\ pc[g] = "yaw_while"
    /\ pc' = [pc EXCEPT ![g] = "stop1"]
    /\ iter_pubs' = [iter_pubs EXCEPT ![g] = 0]
    /\ UNCHANGED <<server_mutex, ctl_alive, goal_status, poses, current_waypoint,
                   waypoint_is_close, setpoint, yaw, missed_waypoints,
                   feedback_sent, zero_tail, cmd_vel, ctlProcess, reached, cycle_pose>>

\* while (rclcpp::ok() && (abs(setpoint.angular.z) > 0.02))
YawWhileHead(g) ==
    /\ ctl_alive
    /\ pc[g] = "yaw_while"
    /\ pc' = [pc EXCEPT ![g] =
                 IF ctl_ok /\ Abs(setpoint[g].angular.z) > FinalYawThreshold
                 THEN "yaw_ok_check"
                 ELSE "stop1"]
    /\ iter_pubs' = [iter_pubs EXCEPT ![g] = 0]
    /\ UNCHANGED <<server_mutex, ctl_alive, goal_status, poses, current_waypoint,
                   waypoint_is_close, setpoint, yaw, missed_waypoints,
                   feedback_sent, zero_tail, cmd_vel, ctlProcess, reached, cycle_pose>>

\* if (!rclcpp::ok()) { record missed waypoints; break; } in the yaw loop.
YawOkCheck(g) ==
    /\ ctl_alive
    /\ pc[g] = "yaw_ok_check"
    /\ IF ~ctl_ok
       THEN /\ missed_waypoints' =
                 [missed_waypoints EXCEPT ![g] =
                     MissedFrom(@, current_waypoint[g], Len(poses[g]))]
            /\ pc' = [pc EXCEPT ![g] = "stop1"]
       ELSE /\ pc' = [pc EXCEPT ![g] = "yaw_cancel_check"]
            /\ UNCHANGED missed_waypoints
    /\ UNCHANGED <<server_mutex, ctl_alive, goal_status, poses, current_waypoint,
                   waypoint_is_close, setpoint, yaw, feedback_sent, zero_tail,
                   cmd_vel, ctlFrame>>

\* A yaw loop without the cancel check.
YawCancelCheckBlind(g) ==
    /\ ctl_alive
    /\ pc[g] = "yaw_cancel_check"
    /\ pc' = [pc EXCEPT ![g] = "yaw_publish"]
    /\ UNCHANGED <<server_mutex, ctl_alive, goal_status, poses, current_waypoint,
                   waypoint_is_close, setpoint, yaw, missed_waypoints,
                   feedback_sent, zero_tail, cmd_vel, ctlFrame>>

\* if (goal_handle->is_canceling()) in the yaw loop.
YawCancelCheck(g) ==
    /\ ctl_alive
    /\ pc[g] = "yaw_cancel_check"
    /\ IF goal_status[g] = "canceling"
       THEN /\ missed_waypoints' =
                 [missed_waypoints EXCEPT ![g] =
                     MissedFrom(@, current_waypoint[g], Len(poses[g]))]
            /\ goal_status' = [goal_status EXCEPT ![g] = "canceled"]
            /\ pc' = [pc EXCEPT ![g] = "yaw_cancel_unlock"]
       ELSE /\ pc' = [pc EXCEPT ![g] = "yaw_publish"]
            /\ UNCHANGED <<missed_waypoints, goal_status>>
    /\ UNCHANGED <<server_mutex, ctl_alive, poses, current_waypoint,
                   waypoint_is_close, setpoint, yaw, feedback_sent, zero_tail,
                   cmd_vel, ctlFrame>>

\* server_mutex.unlock(); return; after canceled() in the yaw loop.
YawCancelUnlock(g) ==
    /\ ctl_alive
    /\ pc[g] = "yaw_cancel_unlock"
    /\ server_mutex' = FALSE
    /\ Return(g)
    /\ UNCHANGED <<ctl_alive, goal_status, poses, missed_waypoints, feedback_sent,
                   zero_tail, cmd_vel, ctlProcess, reached>>

\* A yaw cycle that publishes only a setpoint that differs from the last one.
YawPublishDeduped(g, samples) ==
    /\ ctl_alive
    /\ pc[g] = "yaw_publish"
    /\ IF setpoint[g] = cmd_vel
       THEN UNCHANGED <<cmd_vel, zero_tail, iter_pubs>>
       ELSE /\ Publish(g, setpoint[g])
            /\ iter_pubs' = [iter_pubs EXCEPT ![g] = @ + 1]
    /\ \E s \in samples :
         setpoint' = [setpoint EXCEPT ![g].angular.z =
                         PidCalculate(DEFAULT_MAX_YAW_SPEED, yaw[g], s.yaw)]
    /\ pc' = [pc EXCEPT ![g] = "yaw_while"]
    /\ UNCHANGED <<server_mutex, ctl_alive, goal_status, poses, current_waypoint,
                   waypoint_is_close, yaw, missed_waypoints, feedback_sent,
                   ctlProcess, reached, cycle_pose>>

\* One cycle of the yaw loop: publish, sleep, recompute the yaw command.
YawPublish(g, samples) ==
    /\ ctl_alive
    /\ pc[g] = "yaw_publish"
    /\ Publish(g, setpoint[g])
    /\ \E s \in samples :
         setpoint' = [setpoint EXCEPT ![g].angular.z =
                         PidCalculate(DEFAULT_MAX_YAW_SPEED, yaw[g], s.yaw)]
    /\ iter_pubs' = [iter_pubs EXCEPT ![g] = @ + 1]
    /\ pc' = [pc EXCEPT ![g] = "yaw_while"]
    /\ UNCHANGED <<server_mutex, ctl_alive, goal_status, poses, current_waypoint,
                   waypoint_is_close, yaw, missed_waypoints, feedback_sent,
                   ctlProcess, reached, cycle_pose>>

\* "Stop flight": the all-zero setpoint, published, then the sleep.
Stop1(g) ==
    /\ ctl_alive
    /\ pc[g] = "stop1"
    /\ setpoint' = [setpoint EXCEPT ![g] = ZeroTwist]
    /\ Publish(g, ZeroTwist)
    /\ pc' = [pc EXCEPT ![g] = "stop2"]
    /\ UNCHANGED <<server_mutex, ctl_alive, goal_status, poses, current_waypoint,
                   waypoint_is_close, yaw, missed_waypoints, feedback_sent,
                   ctlFrame>>

\* The second stop command left out.
Stop2Silent(g) ==
    /\ ctl_alive
    /\ pc[g] = "stop2"
    /\ pc' = [pc EXCEPT ![g] = "finish"]
    /\ UNCHANGED <<server_mutex, ctl_alive, goal_status, poses, current_waypoint,
                   waypoint_is_close, setpoint, yaw, missed_waypoints,
                   feedback_sent, zero_tail, cmd_vel, ctlFrame>>

\* publisher_->publish(setpoint);  // Just to be sure :-)
Stop2(g) ==
    /\ ctl_alive
    /\ pc[g] = "stop2"
    /\ Publish(g, setpoint[g])
    /\ pc' = [pc EXCEPT ![g] = "finish"]
    /\ UNCHANGED <<server_mutex, ctl_alive, goal_status, poses, current_waypoint,
                   waypoint_is_close, setpoint, yaw, missed_waypoints,
                   feedback_sent, ctlFrame>>

\* succeed() without the rclcpp::ok() test.
FinishStatusAlways(ok, status) == "succeeded"

\* if (rclcpp::ok()) goal_handle->succeed(result): the goal's state after it.
FinishStatus(ok, status) == IF ok THEN "succeeded" ELSE status

\* "Check if goal is done", the end of execute().
Finish(g) ==
    /\ ctl_alive
    /\ pc[g] = "finish"
    /\ goal_status' = [goal_status EXCEPT ![g] = FinishStatus(ctl_ok, @)]
    /\ pc' = [pc EXCEPT ![g] = "unlock"]
    /\ UNCHANGED <<server_mutex, ctl_alive, poses, current_waypoint,
                   waypoint_is_close, setpoint, yaw, missed_waypoints,
                   feedback_sent, zero_tail, cmd_vel, ctlFrame>>

\* An execute() that returns at its end without the unlock.
UnlockSkipped(g) ==
    /\ ctl_alive
    /\ pc[g] = "unlock"
    /\ Return(g)
    /\ UNCHANGED <<server_mutex, ctl_alive, goal_status, poses, missed_waypoints,
                   feedback_sent, zero_tail, cmd_vel, ctlProcess, reached>>

\* server_mutex.unlock() at the end of execute().  The mutex was locked by the
\* executor thread in handle_goal(); std::mutex is a default pthread mutex,
\* which keeps no owner check, so the unlock from the execute() thread frees it.
Unlock(g) ==
    /\ ctl_alive
    /\ pc[g] = "unlock"
    /\ server_mutex' = FALSE
    /\ Return(g)
    /\ UNCHANGED <<ctl_alive, goal_status, poses, missed_waypoints, feedback_sent,
                   zero_tail, cmd_vel, ctlProcess, reached>>

\* The controller with the follow-waypoints goals `goals`, their requests
\* drawn from `requests` and the pose reads from `samples`.
CtlStep(goals, requests, samples) ==
    \/ \E g \in goals : HandleGoal(g, requests)
    \/ \E g \in goals : HandleCancel(g)
    \/ \E g \in goals : HandleAccepted(g)
    \/ CtlShutdown
    \/ \E g \in goals : ForHead(g)
    \/ \E g \in goals : FirstDistance(g, samples)
    \/ \E g \in goals : WhileHead(g)
    \/ \E g \in goals : CancelCheck(g)
    \/ \E g \in goals : CancelUnlock(g)
    \/ \E g \in goals : Cycle(g, samples)
    \/ \E g \in goals : Feedback(g)
    \/ \E g \in goals : YawInit(g, samples)
    \/ \E g \in goals : YawWhileHead(g)
    \/ \E g \in goals : YawOkCheck(g)
    \/ \E g \in goals : YawCancelCheck(g)
    \/ \E g \in goals : YawCancelUnlock(g)
    \/ \E g \in goals : YawPublish(g, samples)
    \/ \E g \in goals : Stop1(g)
    \/ \E g \in goals : Stop2(g)
    \/ \E g \in goals : Finish(g)
    \/ \E g \in goals : Unlock(g)

\* ------------------------------------------------------- NavigationServer
Missions == 1..MaxMissions

NodeStatus == {"RUNNING", "SUCCESS", "FAILURE"}

NavInit ==
    /\ nav_ok = TRUE
    /\ nav_alive = TRUE
    /\ mission_status = [m \in Missions |-> "none"]
    /\ behavior_tree = [m \in Missions |-> "none"]
    /\ nav_pc = [m \in Missions |-> "idle"]
    /\ ticks = [m \in Missions |-> 0]
    /\ feedbacks = [m \in Missions |-> 0]
    /\ last_tick = [m \in Missions |-> "IDLE"]
    /\ cancel_at_tick = [m \in Missions |-> FALSE]

\* handle_goal(): every request is accepted, whatever script it names.
NavHandleGoal(m) ==
    /\ nav_alive /\ nav_ok
    /\ mission_status[m] = "none"
    /\ \E script \in {"loadable", "malformed"} :
         behavior_tree' = [behavior_tree EXCEPT ![m] = script]
    /\ mission_status' = [mission_status EXCEPT ![m] = "executing"]
    /\ nav_pc' = [nav_pc EXCEPT ![m] = "accepted"]
    /\ UNCHANGED <<ctlVars, poseVars, auxVars, nav_ok, nav_alive, ticks, feedbacks, last_tick, cancel_at_tick>>

\* handle_cancel(): every cancel request for an active goal is accepted.
NavHandleCancel(m) ==
    /\ nav_alive /\ nav_ok
    /\ mission_status[m] = "executing"
    /\ mission_status' = [mission_status EXCEPT ![m] = "canceling"]
    /\ UNCHANGED <<ctlVars, poseVars, auxVars, nav_ok, nav_alive, behavior_tree, nav_pc, ticks, feedbacks,
                   last_tick, cancel_at_tick>>

\* handle_accepted(): a detached thread runs execute().
NavHandleAccepted(m) ==
    /\ nav_alive
    /\ nav_pc[m] = "accepted"
    /\ nav_pc' = [nav_pc EXCEPT ![m] = "load"]
    /\ UNCHANGED <<ctlVars, poseVars, auxVars, nav_ok, nav_alive, mission_status, behavior_tree, ticks,
                   feedbacks, last_tick, cancel_at_tick>>

\* rclcpp::shutdown() of the navigation process.
NavShutdown ==
    /\ nav_alive /\ nav_ok
    /\ nav_ok' = FALSE
    /\ UNCHANGED <<ctlVars, poseVars, auxVars, nav_alive, mission_status, behavior_tree, nav_pc, ticks,
                   feedbacks, last_tick, cancel_at_tick>>

\* factory.createTreeFromFile(goal->behavior_tree) and the init of the nodes.
\* A script that cannot be loaded makes it throw; nothing in the detached
\* thread catches, so std::terminate ends the process.
LoadTree(m) ==
    /\ nav_alive
    /\ nav_pc[m] = "load"
    /\ IF behavior_tree[m] = "malformed"
       THEN /\ nav_alive' = FALSE
            /\ UNCHANGED nav_pc
       ELSE /\ nav_pc' = [nav_pc EXCEPT ![m] = "tick"]
            /\ UNCHANGED nav_alive
    /\ UNCHANGED <<ctlVars, poseVars, auxVars, nav_ok, mission_status, behavior_tree, ticks, feedbacks,
                   last_tick, cancel_at_tick>>

\* The loop kept running on every status but FAILURE.
AfterTickNotFailure(status, ok) ==
    IF status # "FAILURE" /\ ok THEN "cancel_check" ELSE "finish"

\* Where the loop condition of execute() leads:
\* while ((tree.tickRoot() == NodeStatus::RUNNING) && rclcpp::ok())
AfterTick(status, ok) == IF status = "RUNNING" /\ ok THEN "cancel_check" ELSE "finish"

\* One evaluation of the loop condition: the tree is ticked once.
Tick(m) ==
    /\ nav_alive
    /\ nav_pc[m] = "tick"
    /\ ticks[m] < MaxTicks
    /\ \E status \in NodeStatus :
         /\ last_tick' = [last_tick EXCEPT ![m] = status]
         /\ nav_pc' = [nav_pc EXCEPT ![m] = AfterTick(status, nav_ok)]
    /\ ticks' = [ticks EXCEPT ![m] = @ + 1]
    /\ cancel_at_tick' = [cancel_at_tick EXCEPT ![m] = (mission_status[m] = "canceling")]
    /\ UNCHANGED <<ctlVars, poseVars, auxVars, nav_ok, nav_alive, mission_status, behavior_tree, feedbacks>>

\* A loop that never looks at the cancel flag.
NavIsCancelingNever(status) == FALSE

\* goal_handle->is_canceling() of a mission.
NavIsCanceling(status) == status = "canceling"

\* if (goal_handle->is_canceling()) { goal_handle->canceled(result); return; }
NavCancelCheck(m) ==
    /\ nav_alive
    /\ nav_pc[m] = "cancel_check"
    /\ IF NavIsCanceling(mission_status[m])
       THEN /\ mission_status' = [mission_status EXCEPT ![m] = "canceled"]
            /\ nav_pc' = [nav_pc EXCEPT ![m] = "done"]
       ELSE /\ nav_pc' = [nav_pc EXCEPT ![m] = "feedback"]
            /\ UNCHANGED mission_status
    /\ UNCHANGED <<ctlVars, poseVars, auxVars, nav_ok, nav_alive, behavior_tree, ticks, feedbacks, last_tick,
                   cancel_at_tick>>

\* A loop that ends after its first feedback.
NavFeedbackOnce(m) ==
    /\ nav_alive
    /\ nav_pc[m] = "feedback"
    /\ feedbacks' = [feedbacks EXCEPT ![m] = @ + 1]
    /\ nav_pc' = [nav_pc EXCEPT ![m] = "finish"]
    /\ UNCHANGED <<ctlVars, poseVars, auxVars, nav_ok, nav_alive, mission_status, behavior_tree, ticks,
                   last_tick, cancel_at_tick>>

\* Fill in and publish the feedback, then loop_rate.sleep().
NavFeedback(m) ==
    /\ nav_alive
    /\ nav_pc[m] = "feedback"
    /\ feedbacks' = [feedbacks EXCEPT ![m] = @ + 1]
    /\ nav_pc' = [nav_pc EXCEPT ![m] = "tick"]
    /\ UNCHANGED <<ctlVars, poseVars, auxVars, nav_ok, nav_alive, mission_status, behavior_tree, ticks,
                   last_tick, cancel_at_tick>>

\* After the loop: if (rclcpp::ok()) goal_handle->succeed(result);
NavFinish(m) ==
    /\ nav_alive
    /\ nav_pc[m] = "finish"
    /\ mission_status' = [mission_status EXCEPT ![m] = FinishStatus(nav_ok, @)]
    /\ nav_pc' = [nav_pc EXCEPT ![m] = "done"]
    /\ UNCHANGED <<ctlVars, poseVars, auxVars, nav_ok, nav_alive, behavior_tree, ticks, feedbacks, last_tick,
                   cancel_at_tick>>

\* The steps of the detached thread that handle_accepted() starts for goal g,
\* from its start to the return of execute().
ExecuteThread(g, samples) ==
    \/ HandleAccepted(g)
    \/ ForHead(g)
    \/ FirstDistance(g, samples)
    \/ WhileHead(g)
    \/ CancelCheck(g)
    \/ CancelUnlock(g)
    \/ Cycle(g, samples)
    \/ Feedback(g)
    \/ YawInit(g, samples)
    \/ YawWhileHead(g)
    \/ YawOkCheck(g)
    \/ YawCancelCheck(g)
    \/ YawCancelUnlock(g)
    \/ YawPublish(g, samples)
    \/ Stop1(g)
    \/ Stop2(g)
    \/ Finish(g)
    \/ Unlock(g)

NavStep ==
    \/ \E m \in Missions : NavHandleGoal(m)
    \/ \E m \in Missions : NavHandleCancel(m)
    \/ \E m \in Missions : NavHandleAccepted(m)
    \/ NavShutdown
    \/ \E m \in Missions : LoadTree(m)
    \/ \E m \in Missions : Tick(m)
    \/ \E m \in Missions : NavCancelCheck(m)
    \/ \E m \in Missions : NavFeedback(m)
    \/ \E m \in Missions : NavFinish(m)

\* The navigation server with the navigate-to-pose goals `missions`.
NavStepOf(missions) ==
    \/ \E m \in missions : NavHandleGoal(m)
    \/ \E m \in missions : NavHandleCancel(m)
    \/ \E m \in missions : NavHandleAccepted(m)
    \/ NavShutdown
    \/ \E m \in missions : LoadTree(m)
    \/ \E m \in missions : Tick(m)
    \/ \E m \in missions : NavCancelCheck(m)
    \/ \E m \in missions : NavFeedback(m)
    \/ \E m \in missions : NavFinish(m)

\* ------------------------------------------------------ on_timer(), the pose
\* The transforms the tf buffer answers with.
TfPoses ==
    { [x |-> p[1], y |-> p[2], z |-> p[3], q |-> q] :
        p \in { <<0, 0, 0>>, <<MaxCoord, 1, 1>> }, q \in Quaternions }

\* geometry_msgs::msg::Pose(): position 0, orientation the identity.
DefaultPose == [x |-> 0, y |-> 0, z |-> 0, q |-> <<0, 0, 0, 1>>]

\* last_yaw is a double without an initialiser: any value.
PoseInit ==
    /\ tf_available = FALSE
    /\ tf_pose = DefaultPose
    /\ nav_last_pose = DefaultPose
    /\ nav_last_good = DefaultPose
    /\ ctl_last_pose = DefaultPose
    /\ ctl_last_yaw \in Yaws
    /\ ctl_last_good = [pose |-> DefaultPose, yaw |-> ctl_last_yaw]
    /\ nav_lookup = "none"
    /\ ctl_lookup = "none"

\* The world: the vehicle moves, the frames come and go.
TfUpdate ==
    /\ tf_available' \in BOOLEAN
    /\ tf_pose' \in TfPoses
    /\ UNCHANGED <<ctlVars, navVars, auxVars, nav_last_pose, nav_last_good, ctl_last_pose,
                   ctl_last_yaw, ctl_last_good, nav_lookup, ctl_lookup>>

\* A catch block that resets the cache.
OnTimerPoseReset(cached, available, tf) == IF available THEN tf ELSE DefaultPose

\* What on_timer() leaves in last_pose: the cached pose when lookupTransform()
\* threw (the catch block returns), the transform `tf` when it answered.
OnTimerPose(cached, available, tf) == IF available THEN tf ELSE cached

\* What on_timer() of the controller leaves in last_yaw.
OnTimerYaw(cached, available, tf) == IF available THEN GetYaw(tf.q) ELSE cached

\* NavigationServer::on_timer()
NavOnTimer ==
    /\ nav_last_pose' = OnTimerPose(nav_last_pose, tf_available, tf_pose)
    /\ nav_last_good' = IF tf_available THEN tf_pose ELSE nav_last_good
    /\ nav_lookup' = IF tf_available THEN "answered" ELSE "failed"
    /\ UNCHANGED <<ctlVars, navVars, auxVars, tf_available, tf_pose, ctl_last_pose,
                   ctl_last_yaw, ctl_last_good, ctl_lookup>>

\* ControllerServer::on_timer()
CtlOnTimer ==
    /\ ctl_last_pose' = OnTimerPose(ctl_last_pose, tf_available, tf_pose)
    /\ ctl_last_yaw' = OnTimerYaw(ctl_last_yaw, tf_available, tf_pose)
    /\ ctl_last_good' = IF tf_available
                        THEN [pose |-> tf_pose, yaw |-> GetYaw(tf_pose.q)]
                        ELSE ctl_last_good
    /\ ctl_lookup' = IF tf_available THEN "answered" ELSE "failed"
    /\ UNCHANGED <<ctlVars, navVars, auxVars, tf_available, tf_pose, nav_last_pose,
                   nav_last_good, nav_lookup>>

\* ------------------------------------- the pose cache, one field at a time
\* on_timer() of the controller writes the cache field by field (position x, y,
\* z, then last_yaw through getRPY) while the detached execute() thread reads
\* it field by field; no lock or atomic guards either side.  A field's value
\* is stood for by the number of the refresh that wrote it.
CacheFields == {"x", "y", "z", "yaw"}

\* The order of the writes of on_timer().
NextWrite(f) ==
    CASE f = "x" -> "y" [] f = "y" -> "z" [] f = "z" -> "yaw" [] OTHER -> "idle"

\* The order of the reads of one control cycle: err_x, err_y, yaw_error, then
\* the altitude for pid_z.
NextRead(f) ==
    CASE f = "x" -> "y" [] f = "y" -> "yaw" [] f = "yaw" -> "z" [] OTHER -> "publish"

SnapInit ==
    /\ refresh = 0
    /\ timer_pc = "idle"
    /\ cache = [f \in CacheFields |-> 0]
    /\ reader_pc = "x"
    /\ snapshot = [f \in CacheFields |-> 0]

snapFrame == <<ctlVars, navVars, poseVars, callVars>>

\* lookupTransform() answered: a new refresh starts.
TimerLookup ==
    /\ timer_pc = "idle"
    /\ refresh < MaxRefresh
    /\ refresh' = refresh + 1
    /\ timer_pc' = "x"
    /\ UNCHANGED <<cache, reader_pc, snapshot, snapFrame>>

\* One assignment of on_timer() to the cache.
TimerWrite ==
    /\ timer_pc \in CacheFields
    /\ cache' = [cache EXCEPT ![timer_pc] = refresh]
    /\ timer_pc' = NextWrite(timer_pc)
    /\ UNCHANGED <<refresh, reader_pc, snapshot, snapFrame>>

\* One read of the cache by the control cycle.
CycleRead ==
    /\ reader_pc \in CacheFields
    /\ snapshot' = [snapshot EXCEPT ![reader_pc] = cache[reader_pc]]
    /\ reader_pc' = NextRead(reader_pc)
    /\ UNCHANGED <<refresh, timer_pc, cache, snapFrame>>

\* The cycle publishes the setpoint computed from what it read and sleeps.
CyclePublish ==
    /\ reader_pc = "publish"
    /\ reader_pc' = "x"
    /\ UNCHANGED <<refresh, timer_pc, cache, snapshot, snapFrame>>

\* ------------------------------------------------------- function calls
NoResult == [done |-> FALSE, value |-> 0]

\* No function is under evaluation.
CallOff ==
    /\ call_args = <<>>
    /\ call_result = NoResult

callFrame == <<ctlVars, navVars, poseVars, snapVars>>

\* Integer angles and moduli for getAbsoluteDiff2Angles.
Angles == (-MaxAngle)..MaxAngle

Moduli == 1..MaxModulus

AngleInit ==
    /\ call_args \in [x : Angles, y : Angles, c : Moduli]
    /\ call_result = NoResult

\* double yaw_error = getAbsoluteDiff2Angles(yaw_to_target, last_yaw, M_PI)
AngleCall ==
    /\ ~call_result.done
    /\ call_result' = [done |-> TRUE,
                       value |-> getAbsoluteDiff2Angles(call_args.x, call_args.y, call_args.c)]
    /\ UNCHANGED <<call_args, callFrame>>

\* Positions of the mission goal and of the cached pose.
Positions == [x : 0..MaxCoord, y : 0..MaxCoord, z : 0..MaxCoord]

\* The square of distance_remaining of the mission feedback:
\*   err_x = wp.x - last.x;  err_y = wp.y - last.y;
\*   xy_distance = sqrt(err_x^2 + err_y^2);
\*   err_z = wp.pose.position.y - last_pose->position.z;
\*   distance_remaining = sqrt(err_z^2 + xy_distance^2)
DistanceRemainingSq(wp, last) ==
    LET err_x == wp.x - last.x
        err_y == wp.y - last.y
        err_z == wp.y - last.z
    IN  err_z * err_z + (err_x * err_x + err_y * err_y)

DistInit ==
    /\ call_args \in [wp : Positions, last : Positions]
    /\ call_result = NoResult

\* The distance computation of one feedback of NavigationServer::execute().
FeedbackDistance ==
    /\ ~call_result.done
    /\ call_result' = [done |-> TRUE,
                       value |-> DistanceRemainingSq(call_args.wp, call_args.last)]
    /\ UNCHANGED <<call_args, callFrame>>

\* Horizontal positions of the waypoint and of the vehicle.
PlanePositions == [x : 0..MaxCoord, y : 0..MaxCoord]

BearingInit ==
    /\ call_args \in [wp : PlanePositions, s : PlanePositions]
    /\ call_result = NoResult

\* The bearing computation of one control cycle, lines 295-310.
BearingCall ==
    /\ ~call_result.done
    /\ call_result' = [done |-> TRUE,
                       value |-> YawToTarget(call_args.wp.x - call_args.s.x,
                                             call_args.wp.y - call_args.s.y)]
    /\ UNCHANGED <<call_args, callFrame>>

\* ---------------------------------------------------------- specifications
\* The pose cache of a specification that does not run the timers.
PoseOff == PoseInit /\ ctl_last_yaw = 0

\* One follow-waypoints goal, every request, and the map.
CtlSpecInit == CtlInit /\ NavInit /\ PoseOff /\ SnapInit /\ CallOff

\* The pose reads of the controller specification: every position of the grid,
\* and the yaws 0, pi/2 and pi (the headings the two waypoints ask for).
CtlSamples == { s \in PoseSamples : s.yaw >= 0 }

CtlNext == CtlStep({1}, GoalPoses, CtlSamples) \/ MapUpdate

CtlSpec == CtlSpecInit /\ [][CtlNext]_vars

\* Arbitration: MaxGoals concurrent requests of at most one waypoint; the pose
\* is read at the two ends of the x axis, at any yaw.
ArbRequests == { p \in GoalPoses : Len(p) <= 1 }

ArbSamples == { s \in PoseSamples : s.x \in {0, MaxCoord} /\ s.y = 0 /\ s.z = 0 }

ArbSpecInit == CtlInit /\ NavInit /\ PoseOff /\ SnapInit /\ CallOff

ArbNext == CtlStep(Goals, ArbRequests, ArbSamples)

ArbSpec == ArbSpecInit /\ [][ArbNext]_vars

\* The navigation server with MaxMissions navigate-to-pose goals.
NavSpecInit == CtlInit /\ NavInit /\ PoseOff /\ SnapInit /\ CallOff

NavSpec == NavSpecInit /\ [][NavStep]_vars

\* The pose caches of both servers.
PoseSpecInit == CtlInit /\ NavInit /\ PoseInit /\ SnapInit /\ CallOff

PoseNext == TfUpdate \/ NavOnTimer \/ CtlOnTimer

PoseSpec == PoseSpecInit /\ [][PoseNext]_vars

\* The pose cache of the controller written and read field by field.
SnapSpecInit == CtlInit /\ NavInit /\ PoseOff /\ SnapInit /\ CallOff

SnapNext == TimerLookup \/ TimerWrite \/ CycleRead \/ CyclePublish

SnapSpec == SnapSpecInit /\ [][SnapNext]_vars

\* getAbsoluteDiff2Angles on every pair of angles and every modulus.
AngleSpecInit == CtlInit /\ NavInit /\ PoseOff /\ SnapInit /\ AngleInit

AngleNext == AngleCall

AngleSpec == AngleSpecInit /\ [][AngleNext]_vars

\* distance_remaining on every goal position and every cached position.
DistSpecInit == CtlInit /\ NavInit /\ PoseOff /\ SnapInit /\ DistInit

DistNext == FeedbackDistance

DistSpec == DistSpecInit /\ [][DistNext]_vars

\* yaw_to_target on every waypoint and vehicle position of the plane.
BearingSpecInit == CtlInit /\ NavInit /\ PoseOff /\ SnapInit /\ BearingInit

BearingNext == BearingCall

BearingSpec == BearingSpecInit /\ [][BearingNext]_vars

\* One follow-waypoints goal of at least one waypoint whose thread is scheduled
\* fairly: the operating system keeps running the detached thread, which
\* never blocks (loop_rate.sleep() returns).  The pose is read far from the
\* waypoints or near them, at the yaw of a waypoint's orientation or away from
\* it, so a waypoint may never be reached and the yaw loop may never converge.
LiveRequests == { p \in GoalPoses : Len(p) >= 1 }

LiveSamples ==
    { s \in PoseSamples : s.x \in {0, MaxCoord} /\ s.y = 1 /\ s.z = 0 /\ s.yaw \in {Pi \div 2, Pi} }

LiveSpecInit == CtlInit /\ NavInit /\ PoseOff /\ SnapInit /\ CallOff

LiveNext == CtlStep({1}, LiveRequests, LiveSamples)

LiveSpec == LiveSpecInit /\ [][LiveNext]_vars /\ WF_vars(ExecuteThread(1, LiveSamples))

\* One follow-waypoints goal of at most one waypoint and one mission, each run
\* to its end by its own server.
TermSpecInit == CtlInit /\ NavInit /\ PoseOff /\ SnapInit /\ CallOff

TermNext == CtlStep({1}, ArbRequests, LiveSamples) \/ NavStepOf({1})

TermSpec == TermSpecInit /\ [][TermNext]_vars

\* Both servers side by side: two follow-waypoints requests for one waypoint
\* at the far end of the x axis, the pose read at either end of it (so the
\* waypoint may never be reached), and one mission.
AcceptGoals == {1, 2}

AcceptMissions == {1}

AcceptRequests == { p \in GoalPoses : Len(p) = 1 /\ p[1].x = MaxCoord }

AcceptSamples ==
    { s \in PoseSamples : s.x \in {0, MaxCoord} /\ s.y = 1 /\ s.z = 0 /\ s.yaw = Pi }

AcceptSpecInit == CtlInit /\ NavInit /\ PoseOff /\ SnapInit /\ CallOff

AcceptNext == CtlStep(AcceptGoals, AcceptRequests, AcceptSamples) \/ NavStepOf(AcceptMissions)

AcceptSpec == AcceptSpecInit /\ [][AcceptNext]_vars

\* ------------------------------------------------------------------ claims
\* execute() of goal g runs, or is about to: from the acceptance of the goal
\* (the mutex taken) until execute() returns.
Running(g) == pc[g] \notin {"idle", "done"}

\* 0-indexed waypoints k, k+1, ..., n-1.
IndexRun(k, n) == [i \in 1..(n - k) |-> k + i - 1]

\* C1: at most one execute() runs at any time; a follow-waypoints request is
\* rejected exactly when another goal holds the mutex (accepted, its execute()
\* not yet returned), and a rejected request is never run later.
C1_SingleOwner ==
    /\ [](Cardinality({ g \in Goals : Running(g) }) <= 1)
    /\ [](\A g \in Goals : goal_status[g] = "rejected" => pc[g] = "idle")
    /\ [][\A g \in Goals :
            (goal_status[g] = "none" /\ goal_status'[g] # "none")
            => ((goal_status'[g] = "rejected") <=> (\E h \in Goals : Running(h)))]_vars

C1_Witness ==
    \E g, h \in Goals :
        /\ pc[g] = "cycle"
        /\ server_mutex
        /\ goal_status[h] = "rejected"

\* C2: a control cycle run while the segment to the waypoint is not free
\* publishes no forward speed and leaves the movement loop.
C2_ObstacleAbort ==
    [][\A g \in Goals :
         (pc[g] = "cycle" /\ pc'[g] # "cycle" /\ ~segment_free)
         => (cmd_vel'.linear.x = 0 /\ pc'[g] # "while")]_vars

\* C3: a mission whose last tick returned FAILURE, with no cancel pending at
\* that tick and the process not shut down, does not end Succeeded.
C3_FailureSurfaced ==
    \A m \in Missions :
        (nav_pc[m] = "done" /\ last_tick[m] = "FAILURE" /\ ~cancel_at_tick[m] /\ nav_ok)
        => mission_status[m] # "succeeded"

\* C4: a request naming a script that cannot be loaded is never accepted, never
\* executes, and leaves the process running.
C4_MalformedScriptRejected ==
    \A m \in Missions :
        behavior_tree[m] = "malformed"
        => (mission_status[m] \notin {"executing", "canceling"} /\ nav_pc[m] = "idle" /\ nav_alive)

\* C5: a cancel observed while waypoint k of n is targeted ends the goal
\* canceled with missed_waypoints = k .. n-1; observed in the yaw loop, with an
\* empty list; after canceled() the thread only unlocks and returns, and the
\* mutex is free once it has returned.
C5_CancelOutcome ==
    \A g \in Goals :
        /\ goal_status[g] = "canceled"
           => pc[g] \in {"cancel_unlock", "yaw_cancel_unlock", "done"}
        /\ pc[g] = "cancel_unlock"
           => /\ goal_status[g] = "canceled"
              /\ current_waypoint[g] < Len(poses[g])
              /\ missed_waypoints[g] = IndexRun(current_waypoint[g], Len(poses[g]))
        /\ pc[g] = "yaw_cancel_unlock"
           => (goal_status[g] = "canceled" /\ missed_waypoints[g] = <<>>)
        /\ (pc[g] = "done" /\ goal_status[g] = "canceled")
           => /\ ~server_mutex
              /\ \E k \in 0..Len(poses[g]) : missed_waypoints[g] = IndexRun(k, Len(poses[g]))

C5_Witness ==
    /\ pc[1] = "cancel_unlock"
    /\ current_waypoint[1] = 1
    /\ Len(poses[1]) = 2

\* C6 as stated: a cancel pending when a tick completes ends the mission
\* canceled, whatever the tick returned.
C6_CancelWhateverTick ==
    \A m \in Missions :
        (nav_pc[m] = "done" /\ cancel_at_tick[m] /\ nav_ok) => mission_status[m] = "canceled"

\* C6 amended: a cancel pending when a tick that returned RUNNING completes
\* (the process running) ends the mission canceled, with no feedback for that
\* tick and no further tick; after a tick that returned SUCCESS or FAILURE the
\* pending cancel is not looked at and the goal is reported succeeded.
C6_CancelAfterRunningTick ==
    \A m \in Missions :
        /\ (nav_pc[m] = "cancel_check" /\ cancel_at_tick[m]) => mission_status[m] = "canceling"
        /\ nav_pc[m] = "feedback" => ~cancel_at_tick[m]
        /\ mission_status[m] = "canceled" => nav_pc[m] = "done"
        /\ (nav_pc[m] = "done" /\ cancel_at_tick[m] /\ last_tick[m] = "RUNNING" /\ nav_ok)
           => (mission_status[m] = "canceled" /\ feedbacks[m] = ticks[m] - 1)
        /\ (nav_pc[m] = "done" /\ cancel_at_tick[m] /\ last_tick[m] # "RUNNING" /\ nav_ok)
           => mission_status[m] = "succeeded"

C6_Witness ==
    \E m \in Missions :
        /\ nav_pc[m] = "done"
        /\ cancel_at_tick[m]
        /\ last_tick[m] = "RUNNING"
        /\ mission_status[m] = "canceled"
        /\ ticks[m] = 2

\* C7: a goal that succeeded has an empty missed_waypoints list, and each of
\* its waypoints 0 .. n-1 was observed within the radius, in index order.
C7_SuccessResult ==
    \A g \in Goals :
        goal_status[g] = "succeeded"
        => /\ missed_waypoints[g] = <<>>
           /\ reached[g] = IndexRun(0, Len(poses[g]))

C7_Witness ==
    /\ goal_status[1] = "succeeded"
    /\ Len(poses[1]) = 2
    /\ reached[1] = <<0, 1>>

\* C8: when a goal succeeds, the last two setpoints it published are all-zero
\* stops, and nothing is published after them.
C8_StopBeforeSuccess ==
    \A g \in Goals :
        goal_status[g] = "succeeded"
        => /\ zero_tail[g] = 2
           /\ cmd_vel = ZeroTwist
           /\ pc[g] \in {"unlock", "done"}

C8_Witness ==
    /\ goal_status[1] = "succeeded"
    /\ pc[1] = "unlock"
    /\ Len(poses[1]) = 1

\* C9 as stated: a mission publishes as many feedback messages as it ticks.
C9_FeedbackEveryTick ==
    \A m \in Missions : nav_pc[m] = "done" => feedbacks[m] = ticks[m]

\* C9 amended: feedback is published once for every tick that returned RUNNING
\* and was followed by neither shutdown nor an observed cancel, and for no
\* other tick: the tick that ends the loop publishes none.
C9_FeedbackPerRunningTick ==
    \A m \in Missions :
        /\ nav_pc[m] \in {"idle", "accepted", "load", "tick"} => feedbacks[m] = ticks[m]
        /\ nav_pc[m] \in {"cancel_check", "feedback"}
           => (last_tick[m] = "RUNNING" /\ feedbacks[m] = ticks[m] - 1)
        /\ nav_pc[m] \in {"finish", "done"} => feedbacks[m] = ticks[m] - 1

C9_Witness ==
    \E m \in Missions :
        /\ nav_pc[m] = "done"
        /\ mission_status[m] = "succeeded"
        /\ ticks[m] = 3
        /\ feedbacks[m] = 2

\* C10: after a failed lookup, and at all times, the cached pose of either
\* server and the cached yaw of the controller are what the last successful
\* lookup left (the initial values before the first one).
C10_StalePoseRetained ==
    /\ nav_last_pose = nav_last_good
    /\ ctl_last_pose = ctl_last_good.pose
    /\ ctl_last_yaw = ctl_last_good.yaw

C10_Witness ==
    /\ nav_lookup = "failed"
    /\ ctl_lookup = "failed"
    /\ ~tf_available
    /\ ctl_last_pose # DefaultPose
    /\ nav_last_pose # DefaultPose
    /\ tf_pose # ctl_last_pose
    /\ ctl_last_yaw = Pi

\* C11 as stated: the fields a control cycle has read when it publishes all
\* come from one and the same refresh of the cache.
C11_AtomicSnapshot ==
    reader_pc = "publish" => \A f, h \in CacheFields : snapshot[f] = snapshot[h]

\* C12: the callbacks of both servers never wait for an execute() thread:
\* wherever the threads stand and whoever holds the mutex, a new request can be
\* answered at once, a cancel of an executing goal can be accepted at once, and
\* an accepted goal can be handed to its thread at once; and a goal is never
\* left between "received" and "answered".
C12_AcceptanceNeverBlocked ==
    /\ \A g \in AcceptGoals :
         /\ (ctl_alive /\ ctl_ok /\ goal_status[g] = "none")
            => ENABLED HandleGoal(g, AcceptRequests)
         /\ (ctl_alive /\ ctl_ok /\ goal_status[g] = "executing")
            => ENABLED HandleCancel(g)
         /\ (ctl_alive /\ pc[g] = "accepted") => ENABLED HandleAccepted(g)
         /\ goal_status[g] = "rejected" => pc[g] = "idle"
         /\ (pc[g] = "cancel_check" /\ goal_status[g] = "canceling" /\ ctl_alive)
            => ENABLED (CancelCheck(g) /\ goal_status'[g] = "canceled")
    /\ \A m \in AcceptMissions :
         /\ (nav_alive /\ nav_ok /\ mission_status[m] = "none") => ENABLED NavHandleGoal(m)
         /\ (nav_alive /\ nav_ok /\ mission_status[m] = "executing")
            => ENABLED NavHandleCancel(m)
         /\ (nav_alive /\ nav_pc[m] = "accepted") => ENABLED NavHandleAccepted(m)

C12_Witness ==
    /\ pc[1] = "cancel_check"
    /\ ~waypoint_is_close[1]
    /\ zero_tail[1] = 0
    /\ goal_status[1] = "canceling"
    /\ goal_status[2] = "none"
    /\ server_mutex
    /\ nav_pc[1] = "feedback"
    /\ mission_status[1] = "executing"

\* C13: getAbsoluteDiff2Angles(x, y, c) lies in [0, c], is symmetric in x and
\* y, and is 0 exactly when x and y are congruent modulo 2c.
C13_ShortestAngularDistance ==
    call_result.done
    => LET x == call_args.x
           y == call_args.y
           c == call_args.c
           r == call_result.value
       IN  /\ r \in 0..c
           /\ r = getAbsoluteDiff2Angles(y, x, c)
           /\ (r = 0) <=> ((x - y) % (2 * c) = 0)

C13_Witness ==
    /\ call_result.done
    /\ call_result.value = 0
    /\ call_args.y - call_args.x = 4 * call_args.c
    /\ call_args.c = MaxModulus - 1

\* The square of the horizontal distance between a waypoint and a pose, in
\* square millimetres (positions are in decimetres); the altitude plays no part.
HorizontalSq(wp, s) == 10000 * ((wp.x - s.x) * (wp.x - s.x) + (wp.y - s.y) * (wp.y - s.y))

C15_Euclidean3D ==
    call_result.done
    => LET wp == call_args.wp
           last == call_args.last
       IN  call_result.value
             = (wp.x - last.x) * (wp.x - last.x)
               + (wp.y - last.y) * (wp.y - last.y)
               + (wp.z - last.z) * (wp.z - last.z)

\* The yaw error of a cycle that read pose s while steering to waypoint wp.
YawErrorOf(wp, s) ==
    getAbsoluteDiff2Angles(YawToTarget(wp.x - s.x, wp.y - s.y), s.yaw, Pi)

\* C16: every setpoint published has linear.y = 0; a cycle of the movement
\* loop publishes a non-zero linear.x only when its yaw error is below the
\* threshold; the yaw loop and the stop publish linear.x = 0; and nothing else
\* publishes.
C16_TurnBeforeTranslate ==
    [][\A g \in Goals :
         /\ (pc[g] = "cycle" /\ pc'[g] = "while")
            => /\ cmd_vel'.linear.y = 0
               /\ (cmd_vel'.linear.x # 0
                   => YawErrorOf(Wp(g), cycle_pose'[g]) < PoseGoodYawError)
         /\ (pc[g] \in {"yaw_publish", "stop1", "stop2"} /\ pc'[g] # pc[g])
            => (cmd_vel'.linear.x = 0 /\ cmd_vel'.linear.y = 0)
         /\ (cmd_vel' # cmd_vel)
            => \E h \in Goals : pc[h] \in {"cycle", "yaw_publish", "stop1", "stop2"}]_vars

C16_Witness ==
    /\ pc[1] = "while"
    /\ iter_pubs[1] = 1
    /\ cmd_vel.linear.x > 0
    /\ YawErrorOf(Wp(1), cycle_pose[1]) = 0
    /\ current_waypoint[1] = 1

\* C17 as stated: a waypoint whose movement loop is left with the vehicle at
\* another altitude (the process running) has had a cycle with a z command.
C17_VerticalCorrectionIssued ==
    [][\A g \in Goals :
         (pc[g] = "while" /\ pc'[g] = "feedback" /\ ctl_ok
            /\ cycle_pose[g].z # Wp(g).z)
         => iter_pubs[g] >= 1]_vars

\* Where an iteration of the movement loop or of the yaw loop stands.
IterationPcs == {"cancel_check", "cycle", "yaw_ok_check", "yaw_cancel_check", "yaw_publish"}

\* C18 as stated: every loop iteration that does not end in cancellation has
\* published exactly one setpoint when it ends.
C18_EveryIterationPublishes ==
    [][\A g \in Goals :
         (pc[g] \in IterationPcs /\ pc'[g] \notin IterationPcs
            /\ goal_status'[g] # "canceled")
         => iter_pubs'[g] = 1]_vars

\* C18 amended: every loop iteration that ends neither in cancellation nor in
\* the shutdown break of the yaw loop has published exactly one setpoint when
\* it ends; an iteration never publishes two.
C18_IterationPublishesOnce ==
    [][\A g \in Goals :
         /\ (pc[g] \in IterationPcs /\ pc'[g] \notin IterationPcs
               /\ goal_status'[g] # "canceled"
               /\ ~(pc[g] = "yaw_ok_check" /\ ~ctl_ok))
            => iter_pubs'[g] = 1
         /\ (pc[g] = "yaw_ok_check" /\ ~ctl_ok /\ pc'[g] # pc[g])
            => (iter_pubs'[g] = 0 /\ pc'[g] = "stop1")
         /\ iter_pubs'[g] <= 1]_vars

C18_Witness ==
    /\ pc[1] = "yaw_while"
    /\ iter_pubs[1] = 1
    /\ cmd_vel = setpoint[1]
    /\ cmd_vel.angular.z # 0

\* The program points inside the final yaw-correction loop.
YawLoopPcs == {"yaw_ok_check", "yaw_cancel_check", "yaw_publish"}

\* C19: the yaw loop runs only with every waypoint reached, its target the
\* yaw of the last waypoint's orientation; with the process running the loop
\* is left only with the yaw command at or below the threshold; the stops
\* follow the loop and success follows the stops.
C19_YawBeforeSuccess ==
    \A g \in Goals :
        /\ pc[g] \in YawLoopPcs
           => /\ current_waypoint[g] = Len(poses[g])
              /\ reached[g] = IndexRun(0, Len(poses[g]))
              /\ Len(poses[g]) > 0 => yaw[g] = GetYaw(poses[g][Len(poses[g])].q)
        /\ (pc[g] = "stop1" /\ ctl_ok)
           => /\ Abs(setpoint[g].angular.z) <= FinalYawThreshold
              /\ reached[g] = IndexRun(0, Len(poses[g]))
        /\ pc[g] = "stop2" => (zero_tail[g] >= 1 /\ goal_status[g] # "succeeded")
        /\ pc[g] = "finish" => (zero_tail[g] = 2 /\ goal_status[g] # "succeeded")
        /\ goal_status[g] = "succeeded" => pc[g] \in {"unlock", "done"}

C19_Witness ==
    /\ pc[1] = "stop1"
    /\ ctl_ok
    /\ Len(poses[1]) = 2
    /\ Abs(cmd_vel.angular.z) > FinalYawThreshold
    /\ cmd_vel.linear.x = 0
    /\ cmd_vel.linear.z = 0
    /\ setpoint[1].angular.z = 0

\* C20 as stated: a goal whose cancel was accepted never leaves the canceling
\* state for anything but canceled.
C20_CancelLeadsToCancelled ==
    [][\A g \in Goals :
         goal_status[g] = "canceling" => goal_status'[g] \in {"canceling", "canceled"}]_vars

\* C20 amended: a goal whose cancel was accepted ends canceled exactly when its
\* thread comes to a cancel check of the movement loop or of the yaw loop
\* afterwards; past the last check the thread reports it succeeded (the
\* process running).
C20_CancelAtCheckpoint ==
    [][\A g \in Goals :
         /\ (goal_status[g] = "canceling"
               /\ pc[g] \in {"cancel_check", "yaw_cancel_check"} /\ pc'[g] # pc[g])
            => goal_status'[g] = "canceled"
         /\ (goal_status'[g] = "canceled" /\ goal_status[g] # "canceled")
            => (goal_status[g] = "canceling"
                /\ pc[g] \in {"cancel_check", "yaw_cancel_check"})
         /\ (goal_status[g] = "canceling" /\ goal_status'[g] \notin {"canceling", "canceled"})
            => (pc[g] = "finish" /\ ctl_ok /\ goal_status'[g] = "succeeded")]_vars

C20_Witness ==
    /\ pc[1] = "yaw_cancel_unlock"
    /\ goal_status[1] = "canceled"
    /\ Len(poses[1]) = 2
    /\ feedback_sent[1] = <<0, 1>>

\* The program points of execute() at which the range-for holds a waypoint.
WaypointPcs == {"distance", "while", "cancel_check", "cycle", "feedback"}

\* C21: every feedback message carries the index of the waypoint the range-for
\* is at when it is published; the indices of one goal are 0, 1, 2, ... in
\* order, each below the number of waypoints, one message per waypoint begun.
C21_FeedbackIndex ==
    /\ [](\A g \in Goals :
            /\ feedback_sent[g] = IndexRun(0, Len(feedback_sent[g]))
            /\ Len(feedback_sent[g]) <= Len(poses[g])
            /\ pc[g] \in WaypointPcs
               => /\ current_waypoint[g] < Len(poses[g])
                  /\ Len(feedback_sent[g]) = current_waypoint[g])
    /\ [][\A g \in Goals :
            feedback_sent'[g] # feedback_sent[g]
            => /\ pc[g] = "feedback"
               /\ feedback_sent'[g] = Append(feedback_sent[g], current_waypoint[g])
               /\ poses[g][feedback_sent'[g][Len(feedback_sent'[g])] + 1] = Wp(g)]_vars

C21_Witness ==
    /\ pc[1] = "for"
    /\ current_waypoint[1] = 2
    /\ feedback_sent[1] = <<0, 1>>
    /\ goal_status[1] = "executing"

\* C22: the mission loop tests, after every tick and in this order, the status
\* returned, rclcpp::ok() and the cancel flag.  While the tick returned RUNNING,
\* the process runs and no cancel is seen, it publishes feedback and ticks
\* again; the first test that fails ends the ticking for good.  A tick that
\* returned SUCCESS with the process running ends the goal succeeded, a cancel
\* seen by the check ends it canceled, and a goal with a terminal result is
\* never ticked again.
C22_MissionLoopExits ==
    /\ [][\A m \in Missions :
            /\ ticks'[m] # ticks[m]
               => /\ nav_pc[m] = "tick"
                  /\ mission_status[m] \in {"executing", "canceling"}
                  /\ nav_pc'[m] = IF last_tick'[m] = "RUNNING" /\ nav_ok
                                  THEN "cancel_check"
                                  ELSE "finish"
            /\ (nav_pc[m] = "cancel_check" /\ nav_pc'[m] # nav_pc[m])
               => IF mission_status[m] = "canceling"
                  THEN mission_status'[m] = "canceled" /\ nav_pc'[m] = "done"
                  ELSE mission_status'[m] = mission_status[m] /\ nav_pc'[m] = "feedback"
            /\ (nav_pc[m] = "feedback" /\ nav_pc'[m] # nav_pc[m]) => nav_pc'[m] = "tick"
            /\ (nav_pc[m] = "finish" /\ nav_pc'[m] # nav_pc[m])
               => /\ nav_pc'[m] = "done"
                  /\ mission_status'[m] = IF nav_ok THEN "succeeded" ELSE mission_status[m]
            /\ nav_pc[m] \in {"finish", "done"}
               => (ticks'[m] = ticks[m] /\ nav_pc'[m] \in {"finish", "done"})]_vars
    /\ [](\A m \in Missions :
            /\ mission_status[m] \in {"succeeded", "canceled"} => nav_pc[m] = "done"
            /\ (nav_pc[m] = "done" /\ last_tick[m] = "SUCCESS" /\ nav_ok)
               => mission_status[m] = "succeeded")

C22_Witness ==
    \E m \in Missions :
        /\ nav_pc[m] = "done"
        /\ last_tick[m] = "SUCCESS"
        /\ mission_status[m] = "succeeded"
        /\ ticks[m] = 2
        /\ feedbacks[m] = 1

\* The sign of the cosine and of the sine of an angle of (-pi, pi].
CosSign(a) == IF Abs(a) < Pi \div 2 THEN 1 ELSE IF Abs(a) = Pi \div 2 THEN 0 ELSE -1

SinSign(a) == IF a = 0 \/ Abs(a) = Pi THEN 0 ELSE Sign(a)

\* C23 as stated: the bearing to the waypoint lies in (-pi, pi] and points the
\* way of the error vector (waypoint minus vehicle): it lies in the quadrant,
\* or on the half-axis, of (err_x, err_y).
C23_BearingQuadrant ==
    call_result.done
    => LET err_x == call_args.wp.x - call_args.s.x
           err_y == call_args.wp.y - call_args.s.y
           r == call_result.value
       IN  /\ -Pi < r /\ r <= Pi
           /\ (err_x # 0 \/ err_y # 0)
              => (CosSign(r) = Sign(err_x) /\ SinSign(r) = Sign(err_y))

\* The program points of execute() that unlock the mutex and return.
UnlockPcs == {"cancel_unlock", "yaw_cancel_unlock", "unlock"}

\* C24: the mutex is held iff exactly one goal has been accepted and its
\* execute() has not returned, and never more than one is; execute() returns
\* only through one of its three unlocks, each of which finds the mutex held
\* and frees it, and it returns once; nothing else frees the mutex, only an
\* accepted request takes it, and a rejected request leaves it as it is.
C24_LockAccounting ==
    /\ [](/\ Cardinality({ g \in Goals : Running(g) }) <= 1
          /\ server_mutex <=> (\E g \in Goals : Running(g)))
    /\ [][\A g \in Goals :
            /\ (pc[g] # "done" /\ pc'[g] = "done")
               => (pc[g] \in UnlockPcs /\ server_mutex /\ ~server_mutex')
            /\ (pc[g] \in UnlockPcs /\ pc'[g] # pc[g]) => pc'[g] = "done"
            /\ pc[g] = "done" => pc'[g] = "done"
            /\ (goal_status[g] = "none" /\ goal_status'[g] = "rejected")
               => (server_mutex /\ server_mutex')
            /\ (goal_status[g] = "none" /\ goal_status'[g] = "executing")
               => (~server_mutex /\ server_mutex')]_vars
    /\ [][(server_mutex /\ ~server_mutex')
            => \E g \in Goals : pc[g] \in UnlockPcs /\ pc'[g] = "done"]_vars
    /\ [][(~server_mutex /\ server_mutex')
            => \E g \in Goals : goal_status[g] = "none" /\ goal_status'[g] = "executing"]_vars

C24_Witness ==
    \E g, h \in Goals :
        /\ pc[g] = "done"
        /\ goal_status[g] = "canceled"
        /\ missed_waypoints[g] = <<>>
        /\ pc[h] = "unlock"
        /\ ~ctl_ok
        /\ server_mutex

\* The client of goal g can see its terminal result.
ResultVisible(g) == goal_status[g] \in {"succeeded", "canceled"}

\* C25 as stated: when the terminal result of a goal is visible its execute()
\* has released the mutex, and a request is rejected only because of a goal
\* whose terminal result is not visible yet.
C25_LockFreeAtResult ==
    /\ [](\A g \in Goals : ResultVisible(g) => ~Running(g))
    /\ [][\A g \in Goals :
            (goal_status[g] = "none" /\ goal_status'[g] = "rejected")
            => \E h \in Goals : Running(h) /\ ~ResultVisible(h)]_vars

\* C26 as stated: once an execute() has returned, on whatever path, the last
\* setpoint on the command topic is the all-zero stop (with one goal, every
\* setpoint on the topic is one that goal's execute() published).
C26_LeftStopped ==
    \A g \in Goals : pc[g] = "done" => (~server_mutex /\ cmd_vel = ZeroTwist)

\* The program points of the movement loop of a waypoint.
MoveLoopPcs == {"while", "cancel_check", "cycle"}

\* C27: with the execute() thread scheduled fairly, a goal of at least one
\* waypoint whose cancel has been accepted leads to its execute() returned and
\* the mutex free, whatever the pose reads are.  The movement loop has no other way out than the
\* waypoint observed as reached, an observed cancel or shutdown: a goal whose
\* waypoint is never reached and that is neither canceled nor shut down stays
\* in the loop and keeps the mutex.
C27_CancelHonoured ==
    /\ (goal_status[1] = "canceling") ~> (pc[1] = "done" /\ ~server_mutex)
    /\ [][(pc[1] \in MoveLoopPcs /\ pc'[1] \notin MoveLoopPcs)
            => \/ waypoint_is_close[1]
               \/ ~ctl_ok
               \/ goal_status'[1] = "canceled"]_vars
    /\ [](pc[1] \in MoveLoopPcs => server_mutex)

C27_Witness ==
    /\ pc[1] = "done"
    /\ goal_status[1] = "canceled"
    /\ reached[1] = <<>>
    /\ missed_waypoints[1] = <<0, 1>>
    /\ cmd_vel # ZeroTwist
    /\ ~server_mutex
    /\ ctl_ok

\* C28 as stated: execute() reads goal->poses only at indices 0 .. n-1; for a
\* goal without poses it reads no last waypoint for the yaw target, the
\* process keeps running, and a goal whose execute() has returned with the
\* process not shut down has a terminal result.
C28_EmptyGoalHandled ==
    /\ [](ctl_alive)
    /\ [](\A g \in Goals :
            /\ pc[g] \in WaypointPcs => current_waypoint[g] \in 0..(Len(poses[g]) - 1)
            /\ (pc[g] = "done" /\ ctl_ok)
               => (ResultVisible(g) /\ ~server_mutex))
    /\ [][\A g \in Goals :
            (pc[g] = "yaw_init" /\ pc'[g] = "yaw_while")
            => /\ Len(poses[g]) > 0
               /\ yaw'[g] = GetYaw(poses[g][Len(poses[g])].q)]_vars

\* The mission's client can see its terminal result.
NavResultVisible(m) == mission_status[m] \in {"succeeded", "canceled"}

\* The program points of ControllerServer::execute() that publish a setpoint
\* or a feedback message.
PublishingPcs == {"cycle", "feedback", "yaw_publish", "stop1", "stop2"}

\* C29: a goal of either server gets at most one terminal call: once its
\* result is visible its state never changes again, its thread only unlocks
\* and returns (the mission's thread has returned), and it publishes no further
\* feedback and no further setpoint.  An execute() that returned without a
\* terminal call did so with the process shut down, and an execute() that comes
\* to its end with the process shut down makes no terminal call.
C29_SingleTerminalResult ==
    /\ [](\A g \in Goals :
            /\ ResultVisible(g) => pc[g] \in UnlockPcs \cup {"done"}
            /\ (pc[g] = "done" /\ ~ResultVisible(g)) => ~ctl_ok)
    /\ [](\A m \in Missions :
            /\ NavResultVisible(m) => nav_pc[m] = "done"
            /\ (nav_pc[m] = "done" /\ ~NavResultVisible(m)) => ~nav_ok)
    /\ [][\A g \in Goals :
            /\ ResultVisible(g)
               => /\ goal_status'[g] = goal_status[g]
                  /\ feedback_sent'[g] = feedback_sent[g]
                  /\ missed_waypoints'[g] = missed_waypoints[g]
            /\ (pc[g] = "finish" /\ pc'[g] # pc[g] /\ ~ctl_ok)
               => goal_status'[g] = goal_status[g]]_vars
    /\ [][(cmd_vel' # cmd_vel)
            => \E g \in Goals : pc[g] \in PublishingPcs /\ ~ResultVisible(g)]_vars
    /\ [][\A m \in Missions :
            /\ NavResultVisible(m)
               => /\ mission_status'[m] = mission_status[m]
                  /\ feedbacks'[m] = feedbacks[m]
                  /\ ticks'[m] = ticks[m]
            /\ (nav_pc[m] = "finish" /\ nav_pc'[m] # nav_pc[m] /\ ~nav_ok)
               => mission_status'[m] = mission_status[m]]_vars

C29_Witness ==
    /\ pc[1] = "done"
    /\ goal_status[1] = "canceled"
    /\ cmd_vel # ZeroTwist
    /\ nav_pc[1] = "done"
    /\ mission_status[1] = "succeeded"
    /\ feedbacks[1] = 1
    /\ ~nav_ok

\* What belongs to mission m alone.
MissionState(m) ==
    <<mission_status[m], behavior_tree[m], nav_pc[m], ticks[m], feedbacks[m],
      last_tick[m], cancel_at_tick[m]>>

\* C30 as stated: every mission request is accepted and none is rejected or
\* kept waiting; a cancel is accepted and an accepted goal gets its thread
\* whatever the other missions do; a step of one mission changes nothing of
\* another; and a mission inside its loop can always take its next step to its
\* terminal result, whatever the other missions do.
C30_UnarbitratedMissions ==
    /\ [](\A m \in Missions :
            /\ mission_status[m] # "rejected"
            /\ (nav_alive /\ nav_ok /\ mission_status[m] = "none") => ENABLED NavHandleGoal(m)
            /\ (nav_alive /\ nav_ok /\ mission_status[m] = "executing")
               => ENABLED NavHandleCancel(m)
            /\ (nav_alive /\ nav_pc[m] = "accepted") => ENABLED NavHandleAccepted(m)
            /\ nav_pc[m] = "cancel_check" => ENABLED NavCancelCheck(m)
            /\ nav_pc[m] = "feedback" => ENABLED NavFeedback(m)
            /\ nav_pc[m] = "finish" => ENABLED NavFinish(m))
    /\ [][\A m, n \in Missions :
            (m # n /\ MissionState(m)' # MissionState(m))
            => MissionState(n)' = MissionState(n)]_vars

====
